---- MODULE Spec2Model ----
(***************************************************************************)
(* A model of the jscrambler command-line client                           *)
(* (packages/jscrambler-cli/src/bin/jscrambler.js): option parsing with    *)
(* its value validators, the merge of flags, config file and built-in      *)
(* defaults, the expansion of the source patterns, and the dispatch to     *)
(* one of the two remote operations.                                       *)
(*                                                                         *)
(* JavaScript values are records [t |-> tag, v |-> payload].  Strings are  *)
(* sequences of one-character strings, so that the regular expressions,    *)
(* toLowerCase, parseInt and path.extname of the source are computed on    *)
(* the characters.  File paths returned by glob are opaque to the program  *)
(* and are kept as plain TLA+ strings.                                     *)
(***************************************************************************)
EXTENDS Integers, Sequences, FiniteSets

VARIABLES
  argv,          \* the raw command line: option values before the validators
  fileConfig,    \* the object exported by the --config file ({} when absent)
  builtin,       \* the object imported from '../config' (_config)
  fs,            \* the filesystem as glob.sync sees it: pattern -> matches
  commander,     \* commander's properties after .parse()
  config,        \* the config object, mutated in place
  globSrc,       \* l.79
  filesSrc,      \* l.79
  i,             \* loop index of l.145 (1-based here)
  pc,            \* position in the script
  exitCode,      \* 0 while running or after a normal end, 1 after process.exit(1)
  errMsg,        \* which console.error preceded process.exit(1)
  errPattern,    \* the pattern named by the message of l.162
  calls          \* the remote operations invoked so far, with their requests

vars == <<argv, fileConfig, builtin, fs, commander, config, globSrc, filesSrc,
          i, pc, exitCode, errMsg, errPattern, calls>>

(***************************************************************************)
(* Bounds of the model.                                                    *)
(***************************************************************************)
MaxPatterns == 2

(***************************************************************************)
(* JavaScript values.                                                      *)
(***************************************************************************)
Undef == [t |-> "undefined", v |-> 0]
Null == [t |-> "null", v |-> 0]
NaN == [t |-> "NaN", v |-> 0]
Str(s) == [t |-> "string", v |-> s]
Num(n) == [t |-> "number", v |-> n]
Bool(b) == [t |-> "boolean", v |-> b]
Arr(a) == [t |-> "array", v |-> a]
Obj(o) == [t |-> "object", v |-> o]

Defined(x) == x.t # "undefined"

\* ToBoolean of the language: what `x ? a : b`, `x || y` and `x && y` test.
Truthy(x) ==
  CASE x.t = "undefined" -> FALSE
    [] x.t = "null" -> FALSE
    [] x.t = "NaN" -> FALSE
    [] x.t = "string" -> x.v # <<>>
    [] x.t = "number" -> x.v # 0
    [] x.t = "boolean" -> x.v
    [] OTHER -> TRUE

Or(a, b) == IF Truthy(a) THEN a ELSE b
And(a, b) == IF Truthy(a) THEN b ELSE a

\* typeof x
TypeOf(x) ==
  CASE x.t = "NaN" -> "number"
    [] x.t \in {"null", "array"} -> "object"
    [] OTHER -> x.t

(***************************************************************************)
(* Characters and strings.                                                 *)
(***************************************************************************)
Digits == <<"0", "1", "2", "3", "4", "5", "6", "7", "8", "9">>
UpperCase == <<"A", "B", "C", "D", "E", "F", "G", "H", "I", "J", "K", "L", "M",
               "N", "O", "P", "Q", "R", "S", "T", "U", "V", "W", "X", "Y", "Z">>
LowerCase == <<"a", "b", "c", "d", "e", "f", "g", "h", "i", "j", "k", "l", "m",
               "n", "o", "p", "q", "r", "s", "t", "u", "v", "w", "x", "y", "z">>

IsDigit(c) == \E d \in 1..10 : Digits[d] = c
DigitValue(c) == (CHOOSE d \in 1..10 : Digits[d] = c) - 1

LowerChar(c) ==
  IF \E k \in 1..26 : UpperCase[k] = c
  THEN LowerCase[CHOOSE k \in 1..26 : UpperCase[k] = c]
  ELSE c

\* String.prototype.toLowerCase
ToLowerCase(s) == [k \in 1..Len(s) |-> LowerChar(s[k])]

RECURSIVE NatToChars(_)
NatToChars(n) ==
  IF n < 10 THEN <<Digits[n + 1]>>
  ELSE NatToChars(n \div 10) \o <<Digits[(n % 10) + 1]>>

\* String(x) for the values of the model
JsString(x) ==
  CASE x.t = "string" -> x.v
    [] x.t = "number" -> IF x.v < 0 THEN <<"-">> \o NatToChars(-x.v) ELSE NatToChars(x.v)
    [] x.t = "boolean" -> IF x.v THEN <<"t", "r", "u", "e">> ELSE <<"f", "a", "l", "s", "e">>
    [] x.t = "undefined" -> <<"u", "n", "d", "e", "f", "i", "n", "e", "d">>
    [] x.t = "null" -> <<"n", "u", "l", "l">>
    [] x.t = "NaN" -> <<"N", "a", "N">>
    [] OTHER -> <<"[", "o", "b", "j", "e", "c", "t", "]">>

RECURSIVE DigitsToNat(_)
DigitsToNat(s) ==
  IF s = <<>> THEN 0
  ELSE 10 * DigitsToNat(SubSeq(s, 1, Len(s) - 1)) + DigitValue(s[Len(s)])

\* the length of the longest prefix of s made of digits
RECURSIVE DigitPrefixLen(_)
DigitPrefixLen(s) ==
  IF s = <<>> \/ ~IsDigit(Head(s)) THEN 0 ELSE 1 + DigitPrefixLen(Tail(s))

RECURSIVE SkipSpaces(_)
SkipSpaces(s) ==
  IF s # <<>> /\ Head(s) = " " THEN SkipSpaces(Tail(s)) ELSE s

\* parseInt(x) without a radix, on decimal input: leading blanks, an optional
\* sign, then the longest run of digits; NaN when there is no digit.
ParseInt(x) ==
  LET s == SkipSpaces(JsString(x))
      neg == s # <<>> /\ Head(s) = "-"
      body == IF s # <<>> /\ Head(s) \in {"-", "+"} THEN Tail(s) ELSE s
      n == DigitPrefixLen(body)
  IN IF n = 0 THEN NaN
     ELSE Num((IF neg THEN -1 ELSE 1) * DigitsToNat(SubSeq(body, 1, n)))

(***************************************************************************)
(* String literals of the source.                                          *)
(***************************************************************************)
S_true == <<"t", "r", "u", "e">>
S_false == <<"f", "a", "l", "s", "e">>
S_stable == <<"s", "t", "a", "b", "l", "e">>
S_latest == <<"l", "a", "t", "e", "s", "t">>
S_zip == <<".", "z", "i", "p">>

(***************************************************************************)
(* Value validators, l.14-33.  A validator either returns a value or       *)
(* calls process.exit(1): [exit |-> TRUE] stands for the latter.           *)
(***************************************************************************)
Return(x) == [exit |-> FALSE, value |-> x]
ProcessExit == [exit |-> TRUE, value |-> Undef]

\* a faulty variant of validateBool: the value is returned as typed
validateBoolKeepCase(val) ==
  IF ToLowerCase(val.v) \in {S_true, S_false} THEN Return(val) ELSE ProcessExit

\* validateBool(option)(val): /^(true|false)$/i, then val.toLowerCase()
validateBool(val) ==
  IF ToLowerCase(val.v) \in {S_true, S_false}
  THEN Return(Str(ToLowerCase(val.v)))
  ELSE ProcessExit

\* filesizeParser(val) of the filesize-parser package: a run of digits, blanks,
\* then a unit (none, b, kb or mb, in any case); it throws on anything else.
\* [ok |-> FALSE] stands for the throw.
filesizeParser(val) ==
  LET s == JsString(val)
      n == DigitPrefixLen(s)
      unit == ToLowerCase(SkipSpaces(SubSeq(s, n + 1, Len(s))))
      amount == DigitsToNat(SubSeq(s, 1, n))
  IN IF n = 0 \/ \E k \in 1..Len(unit) : IsDigit(unit[k])
       THEN [ok |-> FALSE, bytes |-> 0]
     ELSE IF unit \in {<<>>, <<"b">>} THEN [ok |-> TRUE, bytes |-> amount]
     ELSE IF unit = <<"k", "b">> THEN [ok |-> TRUE, bytes |-> amount * 1024]
     ELSE IF unit = <<"m", "b">> THEN [ok |-> TRUE, bytes |-> amount * 1024 * 1024]
     ELSE [ok |-> FALSE, bytes |-> 0]

\* validateCodeHardeningThreshold(val): the parsed size, or exit on a throw
validateCodeHardeningThreshold(val) ==
  LET r == filesizeParser(val)
  IN IF r.ok THEN Return(Num(r.bytes)) ELSE ProcessExit

(***************************************************************************)
(* The options of the command line (l.35-77) and the fields of the config  *)
(* object (l.90-125, l.190-213).                                           *)
(***************************************************************************)
BoolOptions == {"recommendedOrder", "tolerateMinification", "werror", "useProfilingData"}

PlainOptions == {"accessKey", "secretKey", "host", "port", "protocol", "cafile",
                 "outputDir", "applicationId", "randomizationSeed", "cwd",
                 "sourceMaps", "jscramblerVersion", "debugMode", "args"}

Options == PlainOptions \cup BoolOptions \cup {"codeHardeningThreshold"}

ConfigFields == {"keys", "accessKey", "secretKey", "host", "port", "protocol",
                 "cafile", "filesDest", "applicationId", "randomizationSeed",
                 "cwd", "useRecommendedOrder", "tolerateMinification", "werror",
                 "jscramblerVersion", "debugMode", "codeHardeningThreshold",
                 "useProfilingData", "filesSrc", "params", "sourceMaps",
                 "applicationTypes", "languageSpecifications",
                 "areSubscribersOrdered", "proxy"}

\* what commander stores for one option: undefined when the option is not
\* given, else the value, passed through the option's validator if it has one
ParseOption(o, raw) ==
  IF ~Defined(raw) THEN Return(raw)
  ELSE IF o \in BoolOptions THEN validateBool(raw)
  ELSE IF o = "codeHardeningThreshold" THEN validateCodeHardeningThreshold(raw)
  ELSE Return(raw)

(***************************************************************************)
(* The merge of flags and config file, l.90-125.                           *)
(***************************************************************************)
\* l.90-93: commander.accessKey || (config.keys ? config.keys.accessKey : undefined)
MergeKey(flag, keys, name) ==
  Or(flag, IF Truthy(keys) THEN keys.v[name] ELSE Undef)

\* l.94, l.97-103, l.111-113: commander.x || config.x
MergeScalar(flag, conf) == Or(flag, conf)

\* l.95-96: config.port = commander.port || config.port;
\*          config.port = config.port && parseInt(config.port)
MergePort(flag, conf) ==
  LET p == Or(flag, conf) IN And(p, ParseInt(p))

\* l.104-110: commander.x ? commander.x !== 'false' : config.x
MergeBool(flag, conf) ==
  IF Truthy(flag) THEN Bool(flag # Str(S_false)) ELSE conf

\* l.123-125: if (commander.useProfilingData) config.useProfilingData = ... !== 'false'
MergeProfilingData(flag, conf) ==
  IF Truthy(flag) THEN Bool(flag # Str(S_false)) ELSE conf

\* a faulty variant of MergeThreshold: the flag is tested for truthiness
MergeThresholdTruthyFlag(flag, conf) ==
  IF Truthy(flag) THEN Return(flag)
  ELSE IF Truthy(conf) THEN validateCodeHardeningThreshold(conf)
  ELSE Return(Undef)

\* l.115-121: the flag when it is not undefined, else the validated config value
MergeThreshold(flag, conf) ==
  IF TypeOf(flag) = "undefined"
  THEN IF Truthy(conf) THEN validateCodeHardeningThreshold(conf) ELSE Return(Undef)
  ELSE Return(flag)

\* the config object after l.90-125, given that l.117 did not exit
MergedConfig(cmd, cfg) ==
  [cfg EXCEPT
     !.accessKey = MergeKey(cmd.accessKey, cfg.keys, "accessKey"),
     !.secretKey = MergeKey(cmd.secretKey, cfg.keys, "secretKey"),
     !.host = MergeScalar(cmd.host, cfg.host),
     !.port = MergePort(cmd.port, cfg.port),
     !.protocol = MergeScalar(cmd.protocol, cfg.protocol),
     !.cafile = MergeScalar(cmd.cafile, cfg.cafile),
     !.filesDest = MergeScalar(cmd.outputDir, cfg.filesDest),
     !.applicationId = MergeScalar(cmd.applicationId, cfg.applicationId),
     !.randomizationSeed = MergeScalar(cmd.randomizationSeed, cfg.randomizationSeed),
     !.cwd = MergeScalar(cmd.cwd, cfg.cwd),
     !.useRecommendedOrder = MergeBool(cmd.recommendedOrder, cfg.useRecommendedOrder),
     !.tolerateMinification = MergeBool(cmd.tolerateMinification, cfg.tolerateMinification),
     !.werror = MergeBool(cmd.werror, cfg.werror),
     !.jscramblerVersion = MergeScalar(cmd.jscramblerVersion, cfg.jscramblerVersion),
     !.debugMode = MergeScalar(cmd.debugMode, cfg.debugMode),
     !.codeHardeningThreshold =
        MergeThreshold(cmd.codeHardeningThreshold, cfg.codeHardeningThreshold).value,
     !.useProfilingData = MergeProfilingData(cmd.useProfilingData, cfg.useProfilingData)]

\* l.127: /^(?:\d+\.\d+(?:-f)?|stable|latest)$/.test(version)
MajorMinor(c) ==
  LET a == DigitPrefixLen(c)
      b == SubSeq(c, a + 2, Len(c))
  IN /\ a >= 1
     /\ Len(c) >= a + 2
     /\ c[a + 1] = "."
     /\ DigitPrefixLen(b) = Len(b)

VersionFormatOk(version) ==
  LET s == JsString(version)
      n == Len(s)
  IN \/ s \in {S_stable, S_latest}
     \/ MajorMinor(s)
     \/ (n >= 2 /\ SubSeq(s, n - 1, n) = <<"-", "f">> /\ MajorMinor(SubSeq(s, 1, n - 2)))

\* l.127: the condition under which the script exits
VersionRejected(version) == Truthy(version) /\ ~VersionFormatOk(version)

\* l.134: defaults(config, _config) of lodash.defaults: every property of the
\* destination that is undefined takes the source's value
defaults(dst, src) ==
  [f \in ConfigFields |-> IF dst[f] = Undef THEN src[f] ELSE dst[f]]

(***************************************************************************)
(* The file resolver, l.136-188.                                           *)
(***************************************************************************)
RECURSIVE LastIndexOf(_, _)
LastIndexOf(s, c) ==
  IF s = <<>> THEN 0
  ELSE IF s[Len(s)] = c THEN Len(s)
  ELSE LastIndexOf(SubSeq(s, 1, Len(s) - 1), c)

\* path.extname(p): from the last "." of the last path segment to the end;
\* empty when there is none or when it is the segment's first character
extname(p) ==
  LET base == SubSeq(p, LastIndexOf(p, "/") + 1, Len(p))
      d == LastIndexOf(base, ".")
  IN IF d <= 1 \/ base = <<".", ".">> THEN <<>> ELSE SubSeq(base, d, Len(base))

\* a faulty variant of ZipAmongSeveral: only the first pattern is looked at
ZipAmongSeveralFirstOnly(src, k) ==
  k = 1 /\ extname(src[k]) = S_zip /\ Len(src) > 1

\* l.150: path.extname(globSrc[i]) === '.zip' && globSrc.length > 1
ZipAmongSeveral(src, k) ==
  extname(src[k]) = S_zip /\ Len(src) > 1

\* a faulty variant of StrictMiss: werror is not consulted
StrictMissIgnoringWerror(werror, tmpGlob) == Len(tmpGlob) = 0

\* l.161: config.werror && tmpGlob.length === 0
StrictMiss(werror, tmpGlob) == Truthy(werror) /\ Len(tmpGlob) = 0

\* a faulty variant of Concat: the accumulator is overwritten
ConcatReplacing(acc, tmpGlob) == tmpGlob

\* l.178: filesSrc.concat(tmpGlob)
Concat(acc, tmpGlob) == acc \o tmpGlob

(***************************************************************************)
(* The two requests, l.190-279.                                            *)
(***************************************************************************)
\* mergeAndParseParams(commander, config.params) of '../cli': the entries given
\* on the command line replace the config file's entries of the same name, in
\* place; the others follow.  This command line declares no parameter option.
mergeAndParseParams(cmd, params) ==
  IF params.t = "array" THEN params ELSE Arr(<<>>)

\* a faulty variant of DestructuredSourceMaps: no default in the destructuring
DestructuredSourceMapsNoDefault(cmd, cfg) == cfg.sourceMaps

\* l.204: sourceMaps = false in the destructuring: the default replaces undefined
DestructuredSourceMaps(cmd, cfg) ==
  IF cfg.sourceMaps = Undef THEN Bool(FALSE) ELSE cfg.sourceMaps

\* l.221-233: the argument of jscrambler.downloadSourceMaps
DownloadRequest(cmd, cfg, files) ==
  [keys |-> [accessKey |-> cfg.accessKey, secretKey |-> cfg.secretKey],
   host |-> cfg.host, port |-> cfg.port, protocol |-> cfg.protocol,
   cafile |-> cfg.cafile, filesDest |-> cfg.filesDest, filesSrc |-> files,
   protectionId |-> cmd.sourceMaps]

\* l.242-272: protectAndDownloadOptions, with bail only when werror is defined
ProtectRequest(cmd, cfg, files) ==
  LET options ==
        [keys |-> [accessKey |-> cfg.accessKey, secretKey |-> cfg.secretKey],
         host |-> cfg.host, port |-> cfg.port, protocol |-> cfg.protocol,
         cafile |-> cfg.cafile, applicationId |-> cfg.applicationId,
         filesSrc |-> files, filesDest |-> cfg.filesDest,
         params |-> mergeAndParseParams(cmd, cfg.params),
         applicationTypes |-> cfg.applicationTypes,
         languageSpecifications |-> cfg.languageSpecifications,
         areSubscribersOrdered |-> cfg.areSubscribersOrdered,
         cwd |-> cfg.cwd,
         sourceMaps |-> DestructuredSourceMaps(cmd, cfg),
         randomizationSeed |-> cfg.randomizationSeed,
         useRecommendedOrder |-> cfg.useRecommendedOrder,
         tolerateMinification |-> cfg.tolerateMinification,
         jscramblerVersion |-> cfg.jscramblerVersion,
         debugMode |-> cfg.debugMode,
         proxy |-> cfg.proxy,
         codeHardeningThreshold |-> cfg.codeHardeningThreshold,
         useProfilingData |-> cfg.useProfilingData]
  IN IF TypeOf(cfg.werror) # "undefined"
     THEN [f \in DOMAIN options \cup {"bail"} |->
             IF f = "bail" THEN cfg.werror ELSE options[f]]
     ELSE options

(***************************************************************************)
(* The script, one action per step.                                        *)
(***************************************************************************)
\* console.error(...); process.exit(1)
Exit(msg, pattern) ==
  /\ pc' = "exit"
  /\ exitCode' = 1
  /\ errMsg' = msg
  /\ errPattern' = pattern

NoPattern == <<>>

Inputs == <<argv, fileConfig, builtin, fs>>

\* l.35-77: commander parses the command line, running the validators
Parse ==
  /\ pc = "parse"
  /\ LET parsed == [o \in Options |-> ParseOption(o, argv[o])]
     IN IF \E o \in Options : parsed[o].exit
        THEN /\ Exit("option", NoPattern)
             /\ UNCHANGED commander
        ELSE /\ commander' = [o \in Options |-> parsed[o].value]
             /\ pc' = "load"
             /\ UNCHANGED <<exitCode, errMsg, errPattern>>
  /\ UNCHANGED <<Inputs, config, globSrc, filesSrc, i, calls>>

\* l.82-88: the config file's object, or {}
LoadConfig ==
  /\ pc = "load"
  /\ config' = fileConfig
  /\ pc' = "merge"
  /\ UNCHANGED <<Inputs, commander, globSrc, filesSrc, i, exitCode, errMsg,
                 errPattern, calls>>

\* l.90-125
Merge ==
  /\ pc = "merge"
  /\ IF MergeThreshold(commander.codeHardeningThreshold,
                       config.codeHardeningThreshold).exit
     THEN /\ Exit("threshold", NoPattern)
          /\ UNCHANGED config
     ELSE /\ config' = MergedConfig(commander, config)
          /\ pc' = "version"
          /\ UNCHANGED <<exitCode, errMsg, errPattern>>
  /\ UNCHANGED <<Inputs, commander, globSrc, filesSrc, i, calls>>

\* l.127-132
VersionCheck ==
  /\ pc = "version"
  /\ IF VersionRejected(config.jscramblerVersion)
     THEN Exit("version", NoPattern)
     ELSE /\ pc' = "defaults"
          /\ UNCHANGED <<exitCode, errMsg, errPattern>>
  /\ UNCHANGED <<Inputs, commander, config, globSrc, filesSrc, i, calls>>

\* l.134
ApplyDefaults ==
  /\ pc = "defaults"
  /\ config' = defaults(config, builtin)
  /\ pc' = "select"
  /\ UNCHANGED <<Inputs, commander, globSrc, filesSrc, i, exitCode, errMsg,
                 errPattern, calls>>

\* l.136-143 and l.184-188: the patterns to expand, if any
SelectGlobSrc ==
  /\ pc = "select"
  /\ LET src == IF Len(commander.args.v) > 0 THEN commander.args ELSE config.filesSrc
     IN /\ globSrc' = src
        /\ IF Truthy(src) /\ Len(src.v) > 0
           THEN /\ filesSrc' = Arr(<<>>)
                /\ i' = 1
                /\ pc' = "glob"
           ELSE /\ pc' = "dispatch"
                /\ UNCHANGED <<filesSrc, i>>
  /\ UNCHANGED <<Inputs, commander, config, exitCode, errMsg, errPattern, calls>>

\* l.145-179: one turn of the loop
GlobStep ==
  /\ pc = "glob"
  /\ i <= Len(globSrc.v)
  /\ LET pattern == globSrc.v[i]
         tmpGlob == fs[pattern]
     IN IF ZipAmongSeveral(globSrc.v, i)
        THEN /\ Exit("zip", NoPattern)
             /\ UNCHANGED <<filesSrc, i>>
        ELSE IF StrictMiss(config.werror, tmpGlob)
        THEN /\ Exit("pattern", pattern)
             /\ UNCHANGED <<filesSrc, i>>
        ELSE /\ filesSrc' = Arr(Concat(filesSrc.v, tmpGlob))
             /\ i' = i + 1
             /\ UNCHANGED <<pc, exitCode, errMsg, errPattern>>
  /\ UNCHANGED <<Inputs, commander, config, globSrc, calls>>

\* l.180-183: after the loop
GlobEnd ==
  /\ pc = "glob"
  /\ i > Len(globSrc.v)
  /\ IF Len(filesSrc.v) = 0
     THEN Exit("nofiles", NoPattern)
     ELSE /\ pc' = "dispatch"
          /\ UNCHANGED <<exitCode, errMsg, errPattern>>
  /\ UNCHANGED <<Inputs, commander, config, globSrc, filesSrc, i, calls>>

\* a faulty variant of Dispatch: both branches of l.217 run
DispatchBoth ==
  /\ pc = "dispatch"
  /\ calls' = calls \o
       << [op |-> "downloadSourceMaps",
           request |-> DownloadRequest(commander, config, filesSrc)],
          [op |-> "protectAndDownload",
           request |-> ProtectRequest(commander, config, filesSrc)] >>
  /\ pc' = "await"
  /\ UNCHANGED <<Inputs, commander, config, globSrc, filesSrc, i, exitCode,
                 errMsg, errPattern>>

\* l.217-279, up to the await: the one remote operation is invoked
Dispatch ==
  /\ pc = "dispatch"
  /\ calls' = Append(calls,
       IF Truthy(commander.sourceMaps)
       THEN [op |-> "downloadSourceMaps",
             request |-> DownloadRequest(commander, config, filesSrc)]
       ELSE [op |-> "protectAndDownload",
             request |-> ProtectRequest(commander, config, filesSrc)])
  /\ pc' = "await"
  /\ UNCHANGED <<Inputs, commander, config, globSrc, filesSrc, i, exitCode,
                 errMsg, errPattern>>

\* the awaited promise is fulfilled: the script ends, exit code 0
RemoteResolve ==
  /\ pc = "await"
  /\ pc' = "done"
  /\ UNCHANGED <<Inputs, commander, config, globSrc, filesSrc, i, exitCode,
                 errMsg, errPattern, calls>>

\* l.234-237, l.274-277: the awaited promise is rejected
RemoteReject ==
  /\ pc = "await"
  /\ Exit("remote", NoPattern)
  /\ UNCHANGED <<Inputs, commander, config, globSrc, filesSrc, i, calls>>

Next ==
  \/ Parse
  \/ LoadConfig
  \/ Merge
  \/ VersionCheck
  \/ ApplyDefaults
  \/ SelectGlobSrc
  \/ GlobStep
  \/ GlobEnd
  \/ Dispatch
  \/ RemoteResolve
  \/ RemoteReject

(***************************************************************************)
(* The invocations explored.  Each family varies one group of options over *)
(* the command line, the config file and the built-in defaults, all other  *)
(* options being absent; every family runs with and without --source-maps. *)
(***************************************************************************)
NoFlags == [o \in Options |-> IF o = "args" THEN Arr(<<>>) ELSE Undef]
EmptyConfig == [f \in ConfigFields |-> Undef]

\* sample texts
T_id == <<"i", "d">>
T_f == <<"f">>
T_c == <<"c">>
T_d == <<"d">>
T_abc == <<"a", "b", "c">>
T_8080 == <<"8", "0", "8", "0">>
T_80a == <<"8", "0", "a">>
T_443 == <<"4", "4", "3">>
T_0 == <<"0">>
T_200kb == <<"2", "0", "0", "k", "b">>
T_1MB == <<"1", "M", "B">>
T_200xb == <<"2", "0", "0", "x", "b">>
T_52 == <<"5", ".", "2">>
T_v52 == <<"v", "5", ".", "2">>
T_5 == <<"5">>
T_52f == <<"5", ".", "2", "-", "f">>
T_71 == <<"7", ".", "1">>
T_TRUE == <<"T", "R", "U", "E">>
T_False == <<"F", "a", "l", "s", "e">>
T_yes == <<"y", "e", "s">>

\* sample patterns: a glob, an archive, a dotfile that has no extension
P_js == <<"*", ".", "j", "s">>
P_zip == <<"b", ".", "z", "i", "p">>
P_dotzip == <<"d", "/", ".", "z", "i", "p">>
PatternSet == {P_js, P_zip, P_dotzip}

\* what a pattern may match, in glob's order
MatchSet == {<<>>, <<"a.js">>, <<"a.js", "b.js">>}

PatternLists == UNION {[1..n -> PatternSet] : n \in 0..MaxPatterns}

SourceMapsFlags == {Undef, Str(T_id)}

\* the filesystem of the families that pass no pattern
AnyFs == [p \in PatternSet |-> <<"a.js">>]

Invocation(a, c, b, f) == [argv |-> a, fileConfig |-> c, builtin |-> b, fs |-> f]

\* option name on the command line -> field of the config object, l.94-103
ScalarField(o) == IF o = "outputDir" THEN "filesDest" ELSE o
ScalarOptions == {"host", "protocol", "cafile", "outputDir", "applicationId",
                  "randomizationSeed", "cwd"}

ScalarInputs ==
  {Invocation([NoFlags EXCEPT ![o] = F, !.sourceMaps = m],
              [EmptyConfig EXCEPT ![ScalarField(o)] = C],
              [EmptyConfig EXCEPT ![ScalarField(o)] = D],
              AnyFs) :
     o \in ScalarOptions,
     F \in {Undef, Str(<<>>), Str(T_f)},
     C \in {Undef, Str(<<>>), Str(T_c), Null},
     D \in {Undef, Str(T_d)},
     m \in SourceMapsFlags}

PortInputs ==
  {Invocation([NoFlags EXCEPT !.port = F, !.sourceMaps = m],
              [EmptyConfig EXCEPT !.port = C],
              [EmptyConfig EXCEPT !.port = D],
              AnyFs) :
     F \in {Undef, Str(<<>>), Str(T_abc), Str(T_8080), Str(T_80a)},
     C \in {Undef, Str(<<>>), Str(T_abc), Str(T_443), Num(443), Num(0)},
     D \in {Undef, Num(443)},
     m \in SourceMapsFlags}

BoolField(o) == IF o = "recommendedOrder" THEN "useRecommendedOrder" ELSE o

BoolInputs ==
  {Invocation([NoFlags EXCEPT ![o] = F, !.sourceMaps = m],
              [EmptyConfig EXCEPT ![BoolField(o)] = C],
              [EmptyConfig EXCEPT ![BoolField(o)] = D],
              AnyFs) :
     o \in BoolOptions,
     F \in {Undef, Str(S_true), Str(S_false), Str(T_TRUE), Str(T_False),
            Str(T_yes), Str(<<>>)},
     C \in {Undef, Bool(TRUE), Bool(FALSE), Str(S_false)},
     D \in {Undef, Bool(TRUE)},
     m \in SourceMapsFlags}

ThresholdInputs ==
  {Invocation([NoFlags EXCEPT !.codeHardeningThreshold = F, !.sourceMaps = m],
              [EmptyConfig EXCEPT !.codeHardeningThreshold = C],
              EmptyConfig,
              AnyFs) :
     F \in {Undef, Str(T_0), Str(T_200kb), Str(T_1MB), Str(T_abc), Str(T_200xb),
            Str(<<>>)},
     C \in {Undef, Str(T_0), Num(0), Str(T_200kb), Num(2048), Str(T_abc),
            Str(<<>>), Null},
     m \in SourceMapsFlags}

VersionInputs ==
  {Invocation([NoFlags EXCEPT !.jscramblerVersion = F, !.sourceMaps = m],
              [EmptyConfig EXCEPT !.jscramblerVersion = C],
              [EmptyConfig EXCEPT !.jscramblerVersion = D],
              AnyFs) :
     F \in {Undef, Str(<<>>), Str(T_52), Str(T_v52), Str(T_5), Str(T_52f),
            Str(S_stable), Str(S_latest)},
     C \in {Undef, Str(<<>>), Str(T_71), Str(T_5), Str(S_latest)},
     D \in {Undef, Str(S_stable)},
     m \in SourceMapsFlags}

SourceMapsInputs ==
  {Invocation([NoFlags EXCEPT !.sourceMaps = F],
              [EmptyConfig EXCEPT !.sourceMaps = C,
                                  !.applicationId = Str(T_c),
                                  !.params = P,
                                  !.keys = Obj([accessKey |-> Str(T_c),
                                                secretKey |-> Str(T_d)])],
              [EmptyConfig EXCEPT !.sourceMaps = D],
              AnyFs) :
     F \in {Undef, Str(<<>>), Str(T_id)},
     C \in {Undef, Bool(TRUE), Bool(FALSE), Str(T_id), Str(<<>>)},
     D \in {Undef, Bool(TRUE)},
     P \in {Undef, Arr(<<[name |-> "selfDefending", options |-> "threshold"]>>)}}

\* the patterns given on the command line, and the config file's filesSrc behind
\* an empty or a one-pattern command line
FileSources ==
  {[cli |-> l, cfg |-> Undef] : l \in PatternLists}
    \cup {[cli |-> l, cfg |-> c] :
            l \in {<<>>, <<P_dotzip>>},
            c \in {Arr(<<>>), Arr(<<P_js>>), Arr(<<P_js, P_zip>>)}}

FileInputs ==
  {Invocation([NoFlags EXCEPT !.args = Arr(s.cli), !.werror = W, !.sourceMaps = m],
              [EmptyConfig EXCEPT !.filesSrc = s.cfg],
              [EmptyConfig EXCEPT !.werror = D],
              f) :
     s \in FileSources,
     W \in {Undef, Str(S_true), Str(S_false)},
     D \in {Undef, Bool(TRUE)},
     f \in [PatternSet -> MatchSet],
     m \in SourceMapsFlags}

Invocations ==
  ScalarInputs \cup PortInputs \cup BoolInputs \cup ThresholdInputs
    \cup VersionInputs \cup SourceMapsInputs \cup FileInputs

Init ==
  /\ \E inv \in Invocations :
       /\ argv = inv.argv
       /\ fileConfig = inv.fileConfig
       /\ builtin = inv.builtin
       /\ fs = inv.fs
  /\ commander = NoFlags
  /\ config = EmptyConfig
  /\ globSrc = Undef
  /\ filesSrc = Undef
  /\ i = 0
  /\ pc = "parse"
  /\ exitCode = 0
  /\ errMsg = "none"
  /\ errPattern = NoPattern
  /\ calls = <<>>

Spec == Init /\ [][Next]_vars

(***************************************************************************)
(* Vocabulary of the properties, computed from the inputs alone.           *)
(***************************************************************************)
\* the patterns supplied: the positional arguments, else the config's filesSrc
SuppliedPatterns ==
  IF Len(argv.args.v) > 0 THEN argv.args.v
  ELSE LET c == IF Defined(fileConfig.filesSrc) THEN fileConfig.filesSrc
                ELSE builtin.filesSrc
       IN IF c.t = "array" THEN c.v ELSE <<>>

\* the matches of the first n patterns of src, in pattern order then match order
RECURSIVE AllMatches(_, _)
AllMatches(src, n) ==
  IF n = 0 THEN <<>> ELSE AllMatches(src, n - 1) \o fs[src[n]]

Misses(src) == {k \in 1..Len(src) : fs[src[k]] = <<>>}
FirstMiss(src) == CHOOSE k \in Misses(src) : \A j \in Misses(src) : k <= j

\* the script has run past the merge of l.90-125
Merged ==
  \/ pc \in {"version", "defaults", "select", "glob", "dispatch", "await", "done"}
  \/ pc = "exit" /\ errMsg \in {"version", "zip", "pattern", "nofiles", "remote"}

\* the script has run past defaults(config, _config) of l.134
Resolved ==
  \/ pc \in {"select", "glob", "dispatch", "await", "done"}
  \/ pc = "exit" /\ errMsg \in {"zip", "pattern", "nofiles", "remote"}

\* the script has left the file resolver of l.136-188
ResolverLeft ==
  \/ pc \in {"dispatch", "await", "done"}
  \/ pc = "exit" /\ errMsg \in {"zip", "pattern", "nofiles", "remote"}

ValidationFailures == {"option", "threshold", "version", "zip", "pattern", "nofiles"}

TuningFields == {"applicationId", "params", "randomizationSeed",
                 "codeHardeningThreshold", "jscramblerVersion",
                 "useRecommendedOrder", "tolerateMinification",
                 "useProfilingData", "applicationTypes",
                 "languageSpecifications", "areSubscribersOrdered", "bail"}

Requests == {calls[k] : k \in 1..Len(calls)}

(***************************************************************************)
(* C1.  Precedence of the simple scalar fields as the claim states it:     *)
(* the value passed to the remote operation is the flag if the flag is     *)
(* defined (the empty string included), else the config file's value if    *)
(* defined, else the default.  The code tests the flag with ||, so a flag  *)
(* given as the empty string is passed over.                               *)
(***************************************************************************)
C1_ScalarPrecedence ==
  \A c \in Requests : \A o \in ScalarOptions :
    ScalarField(o) \in DOMAIN c.request =>
      c.request[ScalarField(o)] =
        IF Defined(argv[o]) THEN argv[o]
        ELSE IF Defined(fileConfig[ScalarField(o)]) THEN fileConfig[ScalarField(o)]
        ELSE builtin[ScalarField(o)]

C3_OneRemoteOperation ==
  /\ Len(calls) <= 1
  /\ calls # <<>> => pc \in {"await", "done", "exit"}
  /\ pc = "exit" =>
       /\ exitCode = 1
       /\ errMsg \in ValidationFailures => calls = <<>>
       /\ errMsg \notin ValidationFailures => errMsg = "remote" /\ Len(calls) = 1
  /\ pc = "done" => Len(calls) = 1 /\ exitCode = 0
  /\ pc \notin {"done", "exit"} => exitCode = 0 /\ ENABLED Next

\* the one remote operation failed, and the process exited with code 1
C3_Witness ==
  /\ pc = "exit"
  /\ errMsg = "remote"
  /\ Len(calls) = 1
  /\ calls[1].op = "protectAndDownload"

(***************************************************************************)
(* C4.  The strict-match policy as the claim states it: under an enabled   *)
(* werror, if some pattern matches nothing the process exits with code 1   *)
(* at the first such pattern, naming it, with no remote operation; under a *)
(* disabled werror such a pattern is skipped and the later ones are still  *)
(* processed.                                                              *)
(***************************************************************************)
SkippedWhenLenient ==
  (Resolved /\ globSrc.t = "array" /\ ~Truthy(config.werror)) =>
    /\ errMsg # "pattern"
    /\ pc = "glob" => filesSrc.v = AllMatches(globSrc.v, i - 1)
    /\ (ResolverLeft /\ Len(globSrc.v) > 0 /\ errMsg # "zip") =>
         /\ i = Len(globSrc.v) + 1
         /\ filesSrc.v = AllMatches(globSrc.v, Len(globSrc.v))

C4_StrictMatchAsClaimed ==
  /\ (ResolverLeft /\ globSrc.t = "array" /\ Truthy(config.werror)
        /\ Misses(globSrc.v) # {}) =>
       /\ pc = "exit"
       /\ exitCode = 1
       /\ errMsg = "pattern"
       /\ errPattern = globSrc.v[FirstMiss(globSrc.v)]
       /\ i = FirstMiss(globSrc.v)
       /\ calls = <<>>
  /\ SkippedWhenLenient

(***************************************************************************)
(* C4, amended.  Under an enabled werror, if some pattern matches nothing  *)
(* the process exits with code 1 and no remote operation is invoked; the   *)
(* exit is at the first such pattern, naming it, unless the archive rule   *)
(* (a .zip pattern in a list of several) rejects the list at that pattern  *)
(* or an earlier one.  Under a disabled werror a pattern that matches      *)
(* nothing is skipped, adds nothing, and the later ones are processed.     *)
(***************************************************************************)
C4_StrictMatch ==
  /\ (ResolverLeft /\ globSrc.t = "array" /\ Truthy(config.werror)
        /\ Misses(globSrc.v) # {}) =>
       /\ pc = "exit"
       /\ exitCode = 1
       /\ calls = <<>>
       /\ IF \E k \in 1..FirstMiss(globSrc.v) :
               extname(globSrc.v[k]) = S_zip /\ Len(globSrc.v) > 1
          THEN errMsg = "zip"
          ELSE /\ errMsg = "pattern"
               /\ errPattern = globSrc.v[FirstMiss(globSrc.v)]
               /\ i = FirstMiss(globSrc.v)
  /\ SkippedWhenLenient

\* werror enabled, the first pattern matched, the second did not: exit there
C4_Witness ==
  /\ pc = "exit"
  /\ errMsg = "pattern"
  /\ Truthy(config.werror)
  /\ i = 2
  /\ errPattern = globSrc.v[2]
  /\ fs[globSrc.v[1]] # <<>>

(***************************************************************************)
(* C5.  With at least one pattern supplied, the filesSrc passed to the     *)
(* remote operation is the concatenation of every pattern's matches, in    *)
(* pattern order and match order, nothing removed, and it is not empty;    *)
(* an empty accumulated list is fatal whatever werror is.  With no pattern *)
(* supplied, filesSrc is undefined.                                        *)
(***************************************************************************)
C5_FilesSrcIsConcatenation ==
  LET src == SuppliedPatterns
  IN /\ \A c \in Requests :
          IF Len(src) > 0
          THEN /\ c.request.filesSrc = Arr(AllMatches(src, Len(src)))
               /\ Len(c.request.filesSrc.v) > 0
          ELSE c.request.filesSrc = Undef
     /\ (ResolverLeft /\ Len(src) > 0 /\ errMsg \notin {"zip", "pattern"}
           /\ AllMatches(src, Len(src)) = <<>>) =>
          pc = "exit" /\ exitCode = 1 /\ errMsg = "nofiles" /\ calls = <<>>

\* two patterns matching the same two files: four entries are passed on
C5_Witness ==
  \E c \in Requests :
    /\ Len(SuppliedPatterns) = 2
    /\ c.request.filesSrc = Arr(<<"a.js", "b.js", "a.js", "b.js">>)

(***************************************************************************)
(* C6.  The boolean-flag fields are tri-state: a flag given as true makes  *)
(* the field true and a flag given as false makes it false, whatever the   *)
(* config file says; without the flag the field keeps the config file's    *)
(* value.                                                                  *)
(***************************************************************************)
C6_BooleanTriState ==
  \A o \in BoolOptions :
    LET flag == argv[o]
        field == config[BoolField(o)]
        inherited == fileConfig[BoolField(o)]
    IN /\ (Merged /\ Defined(flag) /\ ToLowerCase(flag.v) = S_true) =>
            field = Bool(TRUE)
       /\ (Merged /\ Defined(flag) /\ ToLowerCase(flag.v) = S_false) =>
            field = Bool(FALSE)
       /\ (Merged /\ ~Defined(flag) /\ (Defined(inherited) \/ ~Resolved)) =>
            field = inherited

\* --werror False over a config file that says true
C6_Witness ==
  /\ Merged
  /\ argv.werror = Str(T_False)
  /\ fileConfig.werror = Bool(TRUE)
  /\ config.werror = Bool(FALSE)

(***************************************************************************)
(* C7.  codeHardeningThreshold after the merge: the flag's parsed byte     *)
(* count whenever the flag was supplied, 0 included, whatever the config   *)
(* file says; without the flag, the validated config value or undefined.   *)
(* It is a number or undefined, never a string.                            *)
(***************************************************************************)
C7_ThresholdAbsentVsZero ==
  LET flag == argv.codeHardeningThreshold
      conf == fileConfig.codeHardeningThreshold
      merged == config.codeHardeningThreshold
  IN Merged =>
       /\ merged.t \in {"number", "undefined"}
       /\ Defined(flag) => merged = Num(filesizeParser(flag).bytes)
       /\ ~Defined(flag) =>
            \/ merged = Undef
            \/ Defined(conf) /\ filesizeParser(conf).ok
                 /\ merged = Num(filesizeParser(conf).bytes)

\* --code-hardening-threshold 0 over a config file that sets a threshold
C7_Witness ==
  /\ Merged
  /\ argv.codeHardeningThreshold = Str(T_0)
  /\ Truthy(fileConfig.codeHardeningThreshold)
  /\ config.codeHardeningThreshold = Num(0)

(***************************************************************************)
(* C8.  No remote operation is invoked with a defined jscramblerVersion    *)
(* that fails the version format.  The code skips the check for a falsy    *)
(* value, so the empty string gets through.                                *)
(***************************************************************************)
C8_VersionChecked ==
  calls # <<>> =>
    (Defined(config.jscramblerVersion) => VersionFormatOk(config.jscramblerVersion))

(***************************************************************************)
(* C9.  In every request passed to a remote operation, port is an integer  *)
(* whenever it is not undefined.  The code passes the empty string on      *)
(* unparsed and turns a text without digits into NaN.                      *)
(***************************************************************************)
C9_PortIsInteger ==
  \A c \in Requests :
    Defined(c.request.port) => c.request.port.t = "number"

(***************************************************************************)
(* C10.  Archive exclusivity: with more than one pattern supplied, one of  *)
(* them having the .zip extension at any position, the invocation ends in  *)
(* exit code 1 and no remote operation is invoked, whatever werror is and  *)
(* whatever the patterns match; one .zip pattern alone is not rejected by  *)
(* this rule.                                                              *)
(***************************************************************************)
C10_ArchiveExclusivity ==
  LET src == SuppliedPatterns
      zips == {k \in 1..Len(src) : extname(src[k]) = S_zip}
  IN /\ (Len(src) > 1 /\ zips # {}) =>
          /\ calls = <<>>
          /\ pc \notin {"dispatch", "await", "done"}
          /\ ResolverLeft => pc = "exit" /\ exitCode = 1
                               /\ errMsg \in {"zip", "pattern"}
     /\ errMsg = "zip" => Len(src) > 1 /\ zips # {}

\* werror disabled, the archive second in the list: rejected at the archive
C10_Witness ==
  /\ pc = "exit"
  /\ errMsg = "zip"
  /\ i = 2
  /\ ~Truthy(config.werror)
  /\ extname(globSrc.v[2]) = S_zip

====
